---- MODULE Spec2Model ----
(***************************************************************************)
(* Model of eventpub-hooks (src/src/index.ts): the module-level registry   *)
(* eventMap (a Map from event key to a Set of subscriber callbacks), the   *)
(* dispatcher instances returned by usePubSub, and their operations.       *)
(*                                                                         *)
(* A JavaScript Map and a JavaScript Set iterate in insertion order, so    *)
(* both are modelled as duplicate-free sequences.  A Set object has an     *)
(* identity: a publish call keeps the Set objects it looked up even after  *)
(* the Map dropped them.  A Set the Map no longer holds can be reached     *)
(* only by the call that holds it, so each reference of a running call is  *)
(* either live (the Set is the one the Map holds for its key) or detached  *)
(* (with the content the Set had when the Map dropped it).                 *)
(*                                                                         *)
(* JavaScript runs one piece of code at a time: the synchronous part of a  *)
(* publish call runs to its end before any timer or promise reaction, and  *)
(* promise reactions (microtasks) run before timer callbacks.              *)
(***************************************************************************)
EXTENDS Integers, Sequences, FiniteSets, TLC

VARIABLES
  eventMap,   \* Map<EventKey, Set<Subscriber>>: sequence of [key, subs] in insertion order
  config,     \* config[i]: the merged configuration of dispatcher instance i
  handles,    \* the functions returned by subscribe that the caller still holds
  run,        \* the publish call whose synchronous part is executing (or idle)
  call,       \* the asynchronous publish call being followed (or none)
  floating,   \* a promise a subscriber returned to a synchronous publish (or none)
  lastOp      \* history: the last operation the host called (see Recorded)

vars == <<eventMap, config, handles, run, call, floating, lastOp>>

----------------------------------------------------------------------------
(* Bounds of the model *)

MaxHandles == 1     \* returned unsubscribe functions the caller keeps
MaxPairs   == 2     \* (key, callback) registrations held at once
MaxCbOps   == 2     \* registry operations performed while one publish call is followed

Keys == {"a", ""}            \* event keys; "" is a falsy key
CB   == {"f", "g"}           \* callback references
Inst == {"A", "B"}           \* dispatcher instances obtained from usePubSub
Args == {42, 7}              \* argument lists passed to publish

Infinity == 1000             \* defaultConfig.maxSubscribers
MaxSubsValues == {0, 1, Infinity}

\* usePubSub(initialConfig): instance A is configured with any maxSubscribers,
\* instance B is usePubSub({}) and keeps the default
Configs == {cf \in [Inst -> [maxSubscribers : MaxSubsValues]] :
              cf["B"].maxSubscribers = Infinity}

NoKey == "<none>"
NoCb  == "<none>"

----------------------------------------------------------------------------
(* Sequences as insertion-ordered Map / Set *)

SeqIndex(s, x) ==
  IF \E i \in 1..Len(s) : s[i] = x
  THEN CHOOSE i \in 1..Len(s) : s[i] = x
  ELSE 0

SeqRemoveAt(s, i) ==
  IF i = 0 THEN s ELSE SubSeq(s, 1, i - 1) \o SubSeq(s, i + 1, Len(s))

Range(s) == {s[i] : i \in 1..Len(s)}

\* Set.prototype.add: appends unless the value is already a member
SetAddDup(s, x) == Append(s, x)
SetAddMove(s, x) == Append(SeqRemoveAt(s, SeqIndex(s, x)), x)
SetAdd(s, x) == IF SeqIndex(s, x) # 0 THEN s ELSE Append(s, x)

\* Set.prototype.delete
SetDelete(s, x) == SeqRemoveAt(s, SeqIndex(s, x))

MapIndex(m, k) ==
  IF \E i \in 1..Len(m) : m[i].key = k
  THEN CHOOSE i \in 1..Len(m) : m[i].key = k
  ELSE 0

MapHas(m, k) == MapIndex(m, k) # 0
MapGet(m, k) == m[MapIndex(m, k)].subs
MapKeys(m) == [i \in 1..Len(m) |-> m[i].key]

\* every (key, callback) pair of the registry, in iteration order
RECURSIVE Pairs(_)
Pairs(m) ==
  IF m = <<>> THEN <<>>
  ELSE [j \in 1..Len(m[1].subs) |-> [key |-> m[1].key, cb |-> m[1].subs[j]]]
       \o Pairs(Tail(m))

----------------------------------------------------------------------------
(* debug *)

\* eventMap.get(key)?.size ?? 0
getSubscribersCount(m, k) == IF MapHas(m, k) THEN Len(MapGet(m, k)) ELSE 0
\* Array.from(eventMap.keys())
getAllKeys(m) == MapKeys(m)

\* the debug object of instance i: every instance closes over the one
\* module-level eventMap
debug(i) ==
  [getSubscribersCount |-> [k \in Keys |-> getSubscribersCount(eventMap, k)],
   getAllKeys          |-> getAllKeys(eventMap)]

Subscribers(m, k) == IF MapHas(m, k) THEN MapGet(m, k) ELSE <<>>

PairsOf(m, k) == [j \in 1..Len(Subscribers(m, k)) |-> [key |-> k, cb |-> Subscribers(m, k)[j]]]

----------------------------------------------------------------------------
(* subscribe / unsubscribe as functions of the registry *)

\* subscribers.size >= config.maxSubscribers
AtCapacityGT(size, max) == IF max = Infinity THEN FALSE ELSE size > max
AtCapacity(size, max) == IF max = Infinity THEN FALSE ELSE size >= max

\* if (!eventMap.has(key)) eventMap.set(key, new Set())
MapEnsure(m, k) == IF MapHas(m, k) THEN m ELSE Append(m, [key |-> k, subs |-> <<>>])

\* the registry after subscribe(key, callback) with maxSubscribers = max;
\* full: the call returned () => {} without registering
SubscribeResult(m, max, k, c) ==
  LET m1   == MapEnsure(m, k)
      idx  == MapIndex(m1, k)
      full == AtCapacity(Len(m1[idx].subs), max)
  IN [map  |-> IF full THEN m1 ELSE [m1 EXCEPT ![idx].subs = SetAdd(@, c)],
      full |-> full]

\* if (subscribers.size === 0) eventMap.delete(key)
DropIfEmptyLate(m, sizeBefore, k) ==
  IF sizeBefore = 0 THEN SeqRemoveAt(m, MapIndex(m, k)) ELSE m
DropIfEmpty(m, sizeBefore, k) ==
  IF Len(MapGet(m, k)) = 0 THEN SeqRemoveAt(m, MapIndex(m, k)) ELSE m

\* the registry after unsubscribe(key, callback); sdel / mdel are the
\* positions of the deleted Set entry and Map entry (0: none deleted), mid is
\* the registry between subscribers.delete(callback) and eventMap.delete(key)
UnsubscribeResult(m, k, c) ==
  IF ~MapHas(m, k)
  THEN [map |-> m, mid |-> m, sdel |-> 0, mdel |-> 0]
  ELSE LET idx == MapIndex(m, k)
           m1  == [m EXCEPT ![idx].subs = SetDelete(@, c)]
           m2  == DropIfEmpty(m1, Len(m[idx].subs), k)
       IN [map  |-> m2,
           mid  |-> m1,
           sdel |-> SeqIndex(m[idx].subs, c),
           mdel |-> IF Len(m2) < Len(m) THEN idx ELSE 0]

----------------------------------------------------------------------------
(* The run record: the synchronous part of a publish call in progress.     *)
(*   sets   the Set objects the call holds, each [key, live, subs]         *)
(*   pos    entries of the current Set (or array) already passed           *)
(*   mpos   entries of eventMap the live Map iterator has passed           *)
(*   queue  Array.from(subscribers): the array being mapped                *)
(*   phase  "iter": between invocations, "cb": inside callback cur,        *)
(*          "done": about to return                                        *)
(*   snap, muts, trace, errs are history: the (key, callback) pairs        *)
(*   registered when the call was made, the registry operations its        *)
(*   callbacks performed, the invocations made, the errors logged          *)

Idle == [kind |-> "idle", key |-> NoKey, args |-> 0,
         sets |-> <<>>, pos |-> 0, mpos |-> 0, queue |-> <<>>,
         phase |-> "iter", cur |-> NoCb, curKey |-> NoKey,
         snap |-> <<>>, muts |-> 0, trace |-> <<>>, errs |-> <<>>]

SyncKinds  == {"publishSync", "publishAllSync"}
AsyncKinds == {"publish", "publishAll"}

\* The call record: one asynchronous publish call.
\*   status  "running" (its synchronous part executes), "awaiting" (await
\*           Promise.all), "resolved" or "rejected" (the promise it returned)
\*   invs    the invocations it made
\*   snap, muts: history, as in the run record
NoCall == [kind |-> "none", key |-> NoKey, args |-> 0, status |-> "none",
           invs |-> <<>>, snap |-> <<>>, muts |-> 0]

NewCall(kind, k, a, status, snap) ==
  [kind |-> kind, key |-> k, args |-> a, status |-> status,
   invs |-> <<>>, snap |-> snap, muts |-> 0]

LiveRef(k) == [key |-> k, live |-> TRUE, subs |-> <<>>]

\* the content of a Set object a run holds
RefSubs(m, ref) == IF ref.live THEN Subscribers(m, ref.key) ELSE ref.subs

\* eventMap.delete(key) or eventMap.clear() detach the Sets a run holds
Detach(m, ref, gone) ==
  IF ref.live /\ ref.key \in gone
  THEN [key |-> ref.key, live |-> FALSE, subs |-> Subscribers(m, ref.key)]
  ELSE ref

----------------------------------------------------------------------------
(* Who may call the dispatcher: the host when nothing is executing, or the *)
(* subscriber callback that is executing right now.                        *)

InCallback == run.kind # "idle" /\ run.phase = "cb"
HostTurn   == run.kind = "idle"
MayCall    ==
  /\ HostTurn \/ InCallback
  /\ run.muts < MaxCbOps
  /\ call.muts < MaxCbOps

\* The running call after the executing callback performed a registry
\* operation: m is the registry when Map entries were dropped (the Sets keep
\* the content they had then), k the key operated on, sdel and
\* mdel the deleted positions, gone the keys whose Map entry was deleted.
\* A live iterator keeps its place when an entry it has passed is deleted.
AfterOp(r, m, k, sdel, mdel, gone, cleared) ==
  IF r.kind = "idle" THEN r
  ELSE [r EXCEPT
          !.muts = IF r.kind \in SyncKinds THEN @ + 1 ELSE @,
          !.sets = [j \in 1..Len(r.sets) |-> Detach(m, r.sets[j], gone)],
          !.pos  = IF r.kind \in SyncKinds
                      /\ r.sets # <<>> /\ r.sets[1].live /\ r.sets[1].key = k
                      /\ sdel # 0 /\ sdel <= @
                   THEN @ - 1 ELSE @,
          !.mpos = IF r.kind # "publishAllSync" THEN @
                   ELSE IF cleared THEN 0
                   ELSE IF mdel # 0 /\ mdel <= @ THEN @ - 1 ELSE @]

\* history: a registry operation was performed while the call is followed
Noted(c) == IF c.kind = "none" THEN c ELSE [c EXCEPT !.muts = @ + 1]

\* history record of an operation: res is what it returned, st what it found
Op(name, k, c, res, st) == [op |-> name, key |-> k, cb |-> c, res |-> res, st |-> st]

\* lastOp follows the operations the host calls itself; the registry
\* operations made inside a publish call, or while an asynchronous call is
\* followed, leave it at the publish that started the call
Recorded(op) == IF HostTurn /\ call.kind = "none" THEN op ELSE lastOp

----------------------------------------------------------------------------
(* Actions: the registry operations *)

\* A function returned by subscribe.  state is history: "fresh" (never
\* called), "spent" (called, and its callback was not registered under its
\* key again since), "stale" (called, and the callback was registered again)
Handle(kind, k, c) == [kind |-> kind, key |-> k, cb |-> c, state |-> "fresh"]

Subscribe(i, k, c, keep) ==
  /\ MayCall
  /\ LET res == SubscribeResult(eventMap, config[i].maxSubscribers, k, c)
         fn  == Handle(IF res.full THEN "noop" ELSE "unsub", k, c)
         added == SeqIndex(Subscribers(eventMap, k), c) = 0
                    /\ SeqIndex(Subscribers(res.map, k), c) # 0
         old == {IF h.key = k /\ h.cb = c /\ h.state = "spent" /\ added
                 THEN [h EXCEPT !.state = "stale"] ELSE h : h \in handles}
     IN /\ keep => Cardinality(old \cup {fn}) <= MaxHandles
        /\ Len(Pairs(res.map)) <= MaxPairs
        /\ eventMap' = res.map
        /\ run' = AfterOp(run, eventMap, k, 0, 0, {}, FALSE)
        /\ handles' = IF keep THEN old \cup {fn} ELSE old
        /\ lastOp' = Recorded(Op("subscribe", k, c, fn.kind,
                                 IF SeqIndex(Subscribers(eventMap, k), c) # 0
                                 THEN "member" ELSE "new"))
  /\ call' = Noted(call)
  /\ UNCHANGED <<config, floating>>

DoUnsubscribe(k, c) ==
  LET res == UnsubscribeResult(eventMap, k, c)
  IN /\ eventMap' = res.map
     /\ run' = AfterOp(run, res.mid, k, res.sdel, res.mdel,
                       IF res.mdel # 0 THEN {k} ELSE {}, FALSE)

Unsubscribe(i, k, c) ==
  /\ MayCall
  /\ DoUnsubscribe(k, c)
  /\ lastOp' = Recorded(Op("unsubscribe", k, c, "",
                  IF lastOp.op = "subscribe" /\ lastOp.key = k /\ lastOp.cb = c
                  THEN "after-subscribe" ELSE ""))
  /\ call' = Noted(call)
  /\ UNCHANGED <<config, handles, floating>>

\* calling a function returned by subscribe: () => {} or () => unsubscribe(key, callback)
CallHandle(h) ==
  /\ MayCall
  /\ h \in handles
  /\ IF h.kind = "noop"
     THEN /\ run' = AfterOp(run, eventMap, h.key, 0, 0, {}, FALSE)
          /\ UNCHANGED eventMap
     ELSE DoUnsubscribe(h.key, h.cb)
  /\ handles' = (handles \ {h}) \cup {[h EXCEPT !.state = "spent"]}
  /\ lastOp' = Recorded(Op("handle", h.key, h.cb, h.kind, h.state))
  /\ call' = Noted(call)
  /\ UNCHANGED <<config, floating>>

\* the caller lets go of a function returned by subscribe
DropHandle(h) ==
  /\ HostTurn
  /\ h \in handles
  /\ handles' = handles \ {h}
  /\ UNCHANGED <<eventMap, config, run, call, lastOp, floating>>

\* eventMap.clear()
ClearOwn(i) ==
  /\ MayCall
  /\ eventMap' = IF i = "A" THEN <<>> ELSE eventMap
  /\ run' = AfterOp(run, eventMap, NoKey, 0, 0, IF i = "A" THEN Keys ELSE {}, i = "A")
  /\ lastOp' = Recorded(Op("clear", NoKey, NoCb, "", ""))
  /\ call' = Noted(call)
  /\ UNCHANGED <<config, handles, floating>>
Clear(i) ==
  /\ MayCall
  /\ eventMap' = <<>>
  /\ run' = AfterOp(run, eventMap, NoKey, 0, 0, Keys, TRUE)
  /\ lastOp' = Recorded(Op("clear", NoKey, NoCb, "", ""))
  /\ call' = Noted(call)
  /\ UNCHANGED <<config, handles, floating>>

----------------------------------------------------------------------------
(* Subscriber callbacks.  What a callback does is up to the host, so every *)
(* invocation picks one behaviour: it returns, it throws, or it returns a  *)
(* promise ("async") that later resolves, rejects or never completes.      *)
(* While it executes it may call subscribe, unsubscribe, clear or a        *)
(* function returned by subscribe.                                         *)

Beh == {"return", "throw", "async"}

\* if (key) { ... for key ${key} ... } else { ... }
Truthy(k) == k # "" /\ k # NoKey
handleError(err, k) == [err |-> err, key |-> IF Truthy(k) THEN k ELSE NoKey]

----------------------------------------------------------------------------
(* publishSync / publishAllSync *)

\* const subscribers = eventMap.get(key); if (subscribers) subscribers.forEach(...)
PublishSync(i, k, a) ==
  /\ HostTurn
  /\ run' = IF MapHas(eventMap, k)
            THEN [Idle EXCEPT !.kind = "publishSync", !.key = k, !.args = a,
                              !.sets = <<LiveRef(k)>>, !.snap = PairsOf(eventMap, k)]
            ELSE [Idle EXCEPT !.kind = "publishSync", !.key = k, !.args = a,
                              !.phase = "done"]
  /\ lastOp' = Op("publishSync", k, NoCb, "", "")
  /\ UNCHANGED <<eventMap, config, handles, call, floating>>

\* eventMap.forEach((subscribers) => subscribers.forEach(...))
PublishAllSync(i, a) ==
  /\ HostTurn
  /\ run' = [Idle EXCEPT !.kind = "publishAllSync", !.args = a,
                         !.snap = Pairs(eventMap)]
  /\ lastOp' = Op("publishAllSync", NoKey, NoCb, "", "")
  /\ UNCHANGED <<eventMap, config, handles, call, floating>>

\* the live Set iterator of forEach: the entry after the pos entries passed
SetNext(r) ==
  LET content == RefSubs(eventMap, r.sets[1])
  IN IF r.pos < Len(content)
     THEN [r EXCEPT !.pos = @ + 1, !.phase = "cb", !.cur = content[r.pos + 1],
                    !.curKey = r.sets[1].key]
     ELSE [r EXCEPT !.sets = <<>>, !.pos = 0,
                    !.phase = IF r.kind = "publishSync" THEN "done" ELSE "iter"]

\* the live Map iterator of forEach
MapNextFirstOnly(r) ==
  IF r.mpos < Len(eventMap) /\ r.mpos = 0
  THEN [r EXCEPT !.mpos = @ + 1, !.sets = <<LiveRef(eventMap[r.mpos + 1].key)>>,
                 !.pos = 0]
  ELSE [r EXCEPT !.phase = "done"]
MapNext(r) ==
  IF r.mpos < Len(eventMap)
  THEN [r EXCEPT !.mpos = @ + 1, !.sets = <<LiveRef(eventMap[r.mpos + 1].key)>>,
                 !.pos = 0]
  ELSE [r EXCEPT !.phase = "done"]

SyncStep ==
  /\ run.kind \in SyncKinds
  /\ run.phase = "iter"
  /\ run' = IF run.sets # <<>> THEN SetNext(run) ELSE MapNext(run)
  /\ UNCHANGED <<eventMap, config, handles, call, lastOp, floating>>

\* try { callback(...args) } catch (error) { handleError(error, key) }
\* (publishAllSync: handleError(error))
SyncCatch(r, b) ==
  IF b = "throw"
  THEN Append(r.errs, handleError("error", IF r.kind = "publishSync" THEN r.key ELSE NoKey))
  ELSE r.errs

\* the forEach callback: the invocation of one subscriber ends
ForEachBodyAbort(r, b) ==
  [r EXCEPT !.phase = IF b = "throw" THEN "done" ELSE "iter",
            !.cur = NoCb, !.curKey = NoKey,
            !.trace = Append(@, [cb |-> r.cur, key |-> r.curKey, args |-> r.args]),
            !.errs  = SyncCatch(r, b)]
ForEachBody(r, b) ==
  [r EXCEPT !.phase = "iter", !.cur = NoCb, !.curKey = NoKey,
            !.trace = Append(@, [cb |-> r.cur, key |-> r.curKey, args |-> r.args]),
            !.errs  = SyncCatch(r, b)]

\* The promise a subscriber returned to publishSync / publishAllSync.
\*   state    pending / rejected ("none": no promise is followed)
\*   handled  a rejection handler is attached to it
\*   logged   what handleError logged for it
NoPromise == [state |-> "none", key |-> NoKey, handled |-> FALSE, logged |-> <<>>]

\* callback(...args); is an expression statement: the value the callback
\* returned is dropped, nothing is attached to a promise it returned
SyncResult(r) ==
  [state |-> "pending", key |-> r.curKey, handled |-> FALSE, logged |-> <<>>]

\* follow: the promise the callback returned is followed (when none is yet)
SyncCallbackEnd(b, follow) ==
  /\ run.kind \in SyncKinds
  /\ run.phase = "cb"
  /\ run' = ForEachBody(run, b)
  /\ floating' = IF follow /\ b = "async" /\ floating.state = "none"
                 THEN SyncResult(run) ELSE floating
  /\ UNCHANGED <<eventMap, config, handles, call, lastOp>>

\* the promise returned to a synchronous publish settles: a fulfilled promise
\* is of no further interest; a rejection runs the handlers attached to it
FloatSettle(out) ==
  /\ HostTurn
  /\ floating.state = "pending"
  /\ floating' = IF out = "fulfilled" THEN NoPromise
                 ELSE [floating EXCEPT !.state = "rejected",
                         !.logged = IF floating.handled
                                    THEN Append(@, handleError("error", floating.key))
                                    ELSE @]
  /\ UNCHANGED <<eventMap, config, handles, run, call, lastOp>>

\* the host stops following a rejected promise
FloatForget ==
  /\ HostTurn
  /\ floating.state = "rejected"
  /\ floating' = NoPromise
  /\ UNCHANGED <<eventMap, config, handles, run, call, lastOp>>

\* the synchronous publish returns to the host
SyncReturn ==
  /\ run.kind \in SyncKinds
  /\ run.phase = "done"
  /\ run' = Idle
  /\ UNCHANGED <<eventMap, config, handles, call, lastOp, floating>>

----------------------------------------------------------------------------
(* publish / publishAll: the wrapped invocations *)

\* One invocation made by an asynchronous publish:
\*   op       the promise of the callback: pending / fulfilled / rejected
\*            ("threw": the callback threw, there is no promise)
\*   timer    the setTimeout of withTimeout: armed / fired / cleared
\*   w        the promise withTimeout returns: pending / fulfilled /
\*            rejected / timeout
\*   reacted  the then / catch reactions of withTimeout have run
\*   logged   what the .catch(handleError) of this invocation logged
NewInv(c, k, a, b) ==
  [cb |-> c, key |-> k, args |-> a,
   op      |-> IF b = "return" THEN "fulfilled" ELSE IF b = "throw" THEN "threw" ELSE "pending",
   timer   |-> IF b = "throw" THEN "none" ELSE "armed",
   w       |-> IF b = "throw" THEN "none" ELSE "pending",
   reacted |-> b = "throw",
   logged  |-> <<>>]

\* .catch((error) => handleError(error, key)) in publish, .catch(handleError) in publishAll
CatchKey(c) == IF c.kind = "publish" THEN c.key ELSE NoKey

\* promise.then(...).catch(...) of withTimeout followed by the caller's catch:
\* the callback's promise settled with outcome out
OnSettledAgain(inv, out, ek) ==
  [inv EXCEPT !.op = out, !.reacted = TRUE,
              !.timer = IF @ = "armed" THEN "cleared" ELSE @,
              !.w = IF @ \in {"pending", "timeout"} THEN out ELSE @,
              !.logged = IF out = "rejected"
                         THEN Append(@, handleError("error", ek)) ELSE @]
OnSettled(inv, out, ek) ==
  [inv EXCEPT !.op = out, !.reacted = TRUE,
              !.timer = IF @ = "armed" THEN "cleared" ELSE @,
              !.w = IF @ = "pending" THEN out ELSE @,
              !.logged = IF inv.w = "pending" /\ out = "rejected"
                         THEN Append(@, handleError("error", ek)) ELSE @]

\* the setTimeout callback of withTimeout followed by the caller's catch
OnTimer(inv, ek) ==
  [inv EXCEPT !.timer = "fired",
              !.w = IF @ = "pending" THEN "timeout" ELSE @,
              !.logged = IF inv.w = "pending"
                         THEN Append(@, handleError("timeout", ek)) ELSE @]

\* The synchronous part of the call is over: the reactions of the promises
\* that are already fulfilled (Promise.resolve of a plain return value) are
\* microtasks and run before any timer callback
Drain(c) ==
  [c EXCEPT !.invs = [n \in 1..Len(c.invs) |->
      IF c.invs[n].op = "fulfilled" /\ ~c.invs[n].reacted
      THEN OnSettled(c.invs[n], "fulfilled", CatchKey(c))
      ELSE c.invs[n]]]

\* const subscribers = eventMap.get(key);
\* if (subscribers) await Promise.all(Array.from(subscribers).map(...))
Publish(i, k, a) ==
  /\ HostTurn
  /\ IF MapHas(eventMap, k)
     THEN /\ run' = [Idle EXCEPT !.kind = "publish", !.key = k, !.args = a,
                                 !.queue = Subscribers(eventMap, k)]
          /\ call' = NewCall("publish", k, a, "running", PairsOf(eventMap, k))
     ELSE /\ run' = Idle
          /\ call' = NewCall("publish", k, a, "resolved", <<>>)
  /\ lastOp' = Op("publish", k, NoCb, "", "")
  /\ UNCHANGED <<eventMap, config, handles, floating>>

\* await Promise.all(Array.from(eventMap.values()).flatMap(...))
PublishAll(i, a) ==
  /\ HostTurn
  /\ run' = [Idle EXCEPT !.kind = "publishAll", !.args = a,
                         !.sets = [j \in 1..Len(eventMap) |-> LiveRef(eventMap[j].key)]]
  /\ call' = NewCall("publishAll", NoKey, a, "running", Pairs(eventMap))
  /\ lastOp' = Op("publishAll", NoKey, NoCb, "", "")
  /\ UNCHANGED <<eventMap, config, handles, floating>>

\* the array map iterates: Array.from(subscribers) is a copy, the registry m
\* the callbacks operate on is not read again
QueueLive(r, m) == IF r.kind = "publish" THEN Subscribers(m, r.key) ELSE r.queue
Queue(r, m) == r.queue

\* Array.prototype.map / flatMap over the arrays made by Array.from
AsyncStep ==
  /\ run.kind \in AsyncKinds
  /\ run.phase = "iter"
  /\ IF run.pos < Len(Queue(run, eventMap))
     THEN /\ run' = [run EXCEPT !.pos = @ + 1, !.phase = "cb",
                                !.cur = Queue(run, eventMap)[run.pos + 1],
                                !.curKey = IF run.kind = "publish" THEN run.key
                                           ELSE @]
          /\ UNCHANGED call
     ELSE IF run.sets # <<>>
     THEN \* the next Set of the flatMap: Array.from(subscribers)
          /\ run' = [run EXCEPT !.sets = Tail(@), !.pos = 0,
                                !.queue = RefSubs(eventMap, run.sets[1]),
                                !.curKey = run.sets[1].key]
          /\ UNCHANGED call
     ELSE \* every callback was called: the call awaits Promise.all
          /\ run' = Idle
          /\ call' = Drain([call EXCEPT !.status = "awaiting"])
  /\ UNCHANGED <<eventMap, config, handles, lastOp, floating>>

\* withTimeout(Promise.resolve(callback(...args)), config.asyncTimeout).catch(...)
\* is evaluated inside map: a throw of callback(...args) leaves map and the
\* async function, and the promise of the call is rejected
MapBody(c, r, b) ==
  [call |-> [c EXCEPT !.invs = Append(@, NewInv(r.cur, r.curKey, r.args, b)),
                      !.status = IF b = "throw" THEN "rejected" ELSE @],
   run  |-> IF b = "throw" THEN Idle ELSE [r EXCEPT !.phase = "iter", !.cur = NoCb]]

AsyncCallbackEnd(b) ==
  /\ run.kind \in AsyncKinds
  /\ run.phase = "cb"
  /\ run' = MapBody(call, run, b).run
  /\ call' = IF run'.kind = "idle" THEN Drain(MapBody(call, run, b).call)
             ELSE MapBody(call, run, b).call
  /\ UNCHANGED <<eventMap, config, handles, lastOp, floating>>

\* the promise returned by the callback settles with outcome out and the
\* reactions run
Settle(n, out) ==
  /\ HostTurn
  /\ n \in 1..Len(call.invs)
  /\ call.invs[n].op = "pending"
  /\ call' = [call EXCEPT !.invs[n] = OnSettled(call.invs[n], out, CatchKey(call))]
  /\ UNCHANGED <<eventMap, config, handles, run, lastOp, floating>>

\* config.asyncTimeout elapsed for invocation n
TimerFire(n) ==
  /\ HostTurn
  /\ n \in 1..Len(call.invs)
  /\ call.invs[n].timer = "armed"
  /\ call' = [call EXCEPT !.invs[n] = OnTimer(call.invs[n], CatchKey(call))]
  /\ UNCHANGED <<eventMap, config, handles, run, lastOp, floating>>

\* Promise.all over the caught promises
AllSettled(invs) == \A n \in 1..Len(invs) : invs[n].w # "pending"

\* the await of publish / publishAll continues: the promise of the call resolves
PublishResolve ==
  /\ HostTurn
  /\ call.status = "awaiting"
  /\ AllSettled(call.invs)
  /\ call' = [call EXCEPT !.status = "resolved"]
  /\ UNCHANGED <<eventMap, config, handles, run, lastOp, floating>>

\* the host stops following a call whose promise has settled
ForgetCall ==
  /\ HostTurn
  /\ call.status \in {"resolved", "rejected"}
  /\ call' = NoCall
  /\ UNCHANGED <<eventMap, config, handles, run, lastOp, floating>>

----------------------------------------------------------------------------

Init ==
  /\ eventMap = <<>>
  /\ config \in Configs
  /\ handles = {}
  /\ run = Idle
  /\ call = NoCall
  /\ floating = NoPromise
  /\ lastOp = Op("init", NoKey, NoCb, "", "")

\* both instances come from usePubSub({})
InitDefault ==
  /\ Init
  /\ \A i \in Inst : config[i].maxSubscribers = Infinity

\* the registry operations and the functions subscribe returns
NextRegistry ==
  \/ \E i \in Inst, k \in Keys, c \in CB, keep \in BOOLEAN : Subscribe(i, k, c, keep)
  \/ \E i \in Inst, k \in Keys, c \in CB : Unsubscribe(i, k, c)
  \/ \E h \in handles : CallHandle(h)
  \/ \E h \in handles : DropHandle(h)
  \/ \E i \in Inst : Clear(i)

SpecRegistry == Init /\ [][NextRegistry]_vars

\* the synchronous publishes, with callbacks that operate on the registry
NextSync ==
  \/ \E i \in Inst, k \in Keys, c \in CB : Subscribe(i, k, c, FALSE)
  \/ \E i \in Inst, k \in Keys, c \in CB : Unsubscribe(i, k, c)
  \/ \E i \in Inst : Clear(i)
  \/ \E i \in Inst, k \in Keys, a \in Args : PublishSync(i, k, a)
  \/ \E i \in Inst, a \in Args : PublishAllSync(i, a)
  \/ SyncStep
  \/ \E b \in Beh : SyncCallbackEnd(b, FALSE)
  \/ SyncReturn

SpecSync == Init /\ [][NextSync]_vars

\* the synchronous publishes, with the promises their subscribers return
NextSyncResult ==
  \/ \E i \in Inst, k \in Keys, c \in CB : Subscribe(i, k, c, FALSE)
  \/ \E i \in Inst, k \in Keys, c \in CB : Unsubscribe(i, k, c)
  \/ \E i \in Inst, k \in Keys, a \in Args : PublishSync(i, k, a)
  \/ \E i \in Inst, a \in Args : PublishAllSync(i, a)
  \/ SyncStep
  \/ \E b \in Beh : SyncCallbackEnd(b, TRUE)
  \/ SyncReturn
  \/ \E out \in {"fulfilled", "rejected"} : FloatSettle(out)
  \/ FloatForget

SpecSyncResult == InitDefault /\ [][NextSyncResult]_vars

\* the asynchronous publishes
NextAsync ==
  \/ \E i \in Inst, k \in Keys, c \in CB : Subscribe(i, k, c, FALSE)
  \/ \E i \in Inst, k \in Keys, c \in CB : Unsubscribe(i, k, c)
  \/ \E i \in Inst : Clear(i)
  \/ \E i \in Inst, k \in Keys, a \in Args : Publish(i, k, a)
  \/ \E i \in Inst, a \in Args : PublishAll(i, a)
  \/ AsyncStep
  \/ \E b \in Beh : AsyncCallbackEnd(b)
  \/ \E n \in 1..Len(call.invs), out \in {"fulfilled", "rejected"} : Settle(n, out)
  \/ \E n \in 1..Len(call.invs) : TimerFire(n)
  \/ PublishResolve
  \/ ForgetCall

SpecAsync == InitDefault /\ [][NextAsync]_vars

\* two dispatchers: subscriptions are made through instance A (of any
\* configuration), publishSync and clear are called through instance B
NextShared ==
  \/ \E k \in Keys, c \in CB : Subscribe("A", k, c, FALSE)
  \/ \E k \in Keys, a \in Args : PublishSync("B", k, a)
  \/ SyncStep
  \/ \E b \in Beh : SyncCallbackEnd(b, FALSE)
  \/ SyncReturn
  \/ Clear("B")

SpecShared == Init /\ [][NextShared]_vars

\* the four publishes together: the host makes a synchronous publish only
\* when it follows no asynchronous call
NextPublish ==
  \/ NextAsync
  \/ call.kind = "none" /\ \E i \in Inst, k \in Keys, a \in Args : PublishSync(i, k, a)
  \/ call.kind = "none" /\ \E i \in Inst, a \in Args : PublishAllSync(i, a)
  \/ SyncStep
  \/ \E b \in Beh : SyncCallbackEnd(b, FALSE)
  \/ SyncReturn

SpecPublish == InitDefault /\ [][NextPublish]_vars

Next == NextRegistry \/ NextSync \/ NextSyncResult \/ NextAsync \/ NextShared

Spec == Init /\ [][Next]_vars

----------------------------------------------------------------------------
(* Properties of the registry *)

KeyPresent(m, k) == k \in Range(getAllKeys(m))

\* C6: a key appears in debug.getAllKeys() if and only if
\* debug.getSubscribersCount(key) > 0, in every reachable state and under
\* every maxSubscribers value.
C6_KeyPresentIffNonEmpty ==
  \A k \in Keys : KeyPresent(eventMap, k) <=> getSubscribersCount(eventMap, k) > 0

\* C7: once the count of k has reached the maxSubscribers N of a dispatcher,
\* one further subscribe(k, f) through it registers nothing, does not change
\* the subscribers of k (so the count does not increase) and returns a
\* function that is a no-op; calling such a function leaves the registry
\* unchanged.
C7_SubscribeAtCapacity ==
  [][ /\ \A i \in Inst, k \in Keys, c \in CB, keep \in BOOLEAN :
           ( /\ lastOp'.op = "subscribe" /\ lastOp'.key = k /\ lastOp'.cb = c
             /\ config[i].maxSubscribers # Infinity
             /\ getSubscribersCount(eventMap, k) >= config[i].maxSubscribers
             /\ Subscribe(i, k, c, keep) )
           => /\ Subscribers(eventMap', k) = Subscribers(eventMap, k)
              /\ getSubscribersCount(eventMap', k) <= getSubscribersCount(eventMap, k)
              /\ lastOp'.res = "noop"
              /\ keep => Handle("noop", k, c) \in handles'
      /\ \A h \in handles :
           (h.kind = "noop" /\ lastOp'.op = "handle" /\ CallHandle(h))
           => eventMap' = eventMap
    ]_vars

C7_Witness ==
  /\ lastOp.op = "subscribe"
  /\ lastOp.res = "noop"
  /\ lastOp.st = "new"
  /\ getSubscribersCount(eventMap, lastOp.key) = 1
  /\ Handle("noop", lastOp.key, lastOp.cb) \in handles

\* C8 as stated: the first call of the function returned by subscribe(k, f)
\* has the effect of unsubscribe(k, f), and every later call leaves the
\* subscribers of every key unchanged, whatever happened between the calls.
C8_Original ==
  [][ \A h \in handles, k \in Keys :
        (lastOp'.op = "handle" /\ CallHandle(h)) =>
          IF h.state = "fresh"
          THEN Subscribers(eventMap', k)
                 = Subscribers(UnsubscribeResult(eventMap, h.key, h.cb).map, k)
          ELSE Subscribers(eventMap', k) = Subscribers(eventMap, k)
    ]_vars

\* C8 amended: a function returned by a subscribe(k, f) that was not refused
\* for capacity has, on every call, the effect of unsubscribe(k, f); a call
\* after an earlier call of the same function changes no key's subscribers
\* unless f was registered under k again in between.
C8_UnsubscribeFnRepeatable ==
  [][ \A h \in handles :
        (lastOp'.op = "handle" /\ CallHandle(h)) =>
          /\ h.kind = "unsub" =>
               eventMap' = UnsubscribeResult(eventMap, h.key, h.cb).map
          /\ h.state = "spent" =>
               \A k \in Keys : Subscribers(eventMap', k) = Subscribers(eventMap, k)
    ]_vars

C8_Witness ==
  /\ lastOp.op = "handle"
  /\ lastOp.res = "unsub"
  /\ lastOp.st = "spent"
  /\ \E k \in Keys : getSubscribersCount(eventMap, k) > 0

\* C9: subscribing a callback that is already registered under k leaves the
\* subscribers of k unchanged; subscribing the same f twice under a key with
\* no other subscriber yields a count of 1.
C9_SubscribeSameTwice ==
  [][ \A i \in Inst, k \in Keys, c \in CB, keep \in BOOLEAN :
        ( /\ lastOp'.op = "subscribe" /\ lastOp'.key = k /\ lastOp'.cb = c
          /\ c \in Range(Subscribers(eventMap, k))
          /\ Subscribe(i, k, c, keep) )
        => /\ Subscribers(eventMap', k) = Subscribers(eventMap, k)
           /\ (lastOp.op = "subscribe" /\ lastOp.key = k /\ lastOp.cb = c
                 /\ Range(Subscribers(eventMap, k)) = {c})
              => getSubscribersCount(eventMap', k) = 1
    ]_vars

C9_Witness ==
  /\ lastOp.op = "subscribe"
  /\ lastOp.st = "member"
  /\ lastOp.res = "unsub"
  /\ Subscribers(eventMap, lastOp.key) = <<lastOp.cb>>

\* C10: when k has no subscriber other than possibly f, subscribe(k, f)
\* followed immediately by unsubscribe(k, f) leaves the count of k at 0 and
\* k absent from getAllKeys, under every maxSubscribers.
C10_SubscribeThenUnsubscribe ==
  [][ \A i \in Inst, k \in Keys, c \in CB :
        ( /\ lastOp.op = "subscribe" /\ lastOp.key = k /\ lastOp.cb = c
          /\ Range(Subscribers(eventMap, k)) \subseteq {c}
          /\ Unsubscribe(i, k, c) )
        => /\ getSubscribersCount(eventMap', k) = 0
           /\ ~KeyPresent(eventMap', k)
    ]_vars

C10_Witness ==
  /\ lastOp.op = "unsubscribe"
  /\ lastOp.st = "after-subscribe"
  /\ ~KeyPresent(eventMap, lastOp.key)
  /\ eventMap # <<>>

----------------------------------------------------------------------------
(* Properties of the publish calls *)

\* the (key, callback) pairs of a sequence of invocations
InvokedPairs(t) == [n \in 1..Len(t) |-> [key |-> t[n].key, cb |-> t[n].cb]]

\* the synchronous part of the followed call is over
Started == call.status \in {"awaiting", "resolved", "rejected"}

\* C1: whatever the subscribers do (return, throw, reject, never complete),
\* a publish call completes successfully: the promise of publish and
\* publishAll is never rejected.  (publishSync and publishAllSync have no
\* failing outcome in the model: every invocation is inside their try/catch.)
C1_PublishNeverFails ==
  call.status # "rejected"

\* C2: in one publish or publishAll call every subscriber registered for the
\* call is invoked exactly once with args, whatever the other subscribers of
\* the call do (stated for calls during which the registry is not modified).
C2_EverySubscriberInvoked ==
  (Started /\ call.muts = 0)
  => /\ InvokedPairs(call.invs) = call.snap
     /\ \A n \in 1..Len(call.invs) : call.invs[n].args = call.args

\* C3: when publishSync(key, ...args) returns, every subscriber of key has
\* been invoked once, in insertion order and with args, also the ones after
\* a subscriber that threw; each throw was caught and logged (stated for
\* calls whose callbacks do not modify the registry).
C3_SyncThrowIsolated ==
  (run.kind = "publishSync" /\ run.muts = 0)
  => /\ run.phase = "done" => InvokedPairs(run.trace) = run.snap
     /\ \A n \in 1..Len(run.trace) :
          /\ n <= Len(run.snap)
          /\ run.trace[n].cb = run.snap[n].cb
          /\ run.trace[n].args = run.args
     /\ Len(run.errs) <= Len(run.trace)

\* both subscribers threw: the first threw and the second was still invoked
C3_Witness ==
  /\ run.kind = "publishSync"
  /\ run.phase = "done"
  /\ run.muts = 0
  /\ Len(run.trace) = 2
  /\ Len(run.errs) = 2

\* C4: the promise of publish / publishAll does not complete while an
\* invocation started by the call is unsettled.
C4_CompletesAfterAllSettled ==
  call.status \in {"resolved", "rejected"}
  => \A n \in 1..Len(call.invs) : call.invs[n].w # "pending"

\* C5: in a publish(key, x) call, once the timer of a subscriber whose work
\* did not complete has fired, a timeout error is logged for key and the call
\* is not rejected (it resolves when the other subscribers have settled);
\* stated for the keys handleError reports, as in publish("a", x).
C5_TimeoutResolvesAndLogs ==
  \A n \in 1..Len(call.invs) :
    (call.kind = "publish" /\ Truthy(call.key) /\ call.invs[n].timer = "fired")
    => /\ call.status # "rejected"
       /\ [err |-> "timeout", key |-> call.key] \in Range(call.invs[n].logged)

IsPrefix(t, snap) ==
  /\ Len(t) <= Len(snap)
  /\ \A n \in 1..Len(t) : t[n] = snap[n]

\* C12: the (key, subscriber) pairs invoked by one publishAll or
\* publishAllSync call are exactly those registered when the call was made,
\* even if a subscriber invoked during the batch subscribes, unsubscribes or
\* clears: at any moment the invocations made are the first pairs of the
\* snapshot, and all of it when the batch is over (for publishAll: when its
\* synchronous part ended without a throw).
C12_PublishAllUsesSnapshot ==
  /\ run.kind = "publishAllSync"
     => /\ IsPrefix(InvokedPairs(run.trace), run.snap)
        /\ run.phase = "done" => InvokedPairs(run.trace) = run.snap
  /\ call.kind = "publishAll"
     => /\ IsPrefix(InvokedPairs(call.invs), call.snap)
        /\ (Started /\ \A n \in 1..Len(call.invs) : call.invs[n].op # "threw")
             => InvokedPairs(call.invs) = call.snap

\* C13: when no subscriber modifies the registry, publishAllSync(...args)
\* invokes each registered (key, subscriber) pair exactly once with args, for
\* every key of the registry and in registry order; a callback registered
\* under two keys is invoked once per key, and nothing else is invoked.
C13_PublishAllSyncEveryPair ==
  (run.kind = "publishAllSync" /\ run.muts = 0)
  => /\ run.snap = Pairs(eventMap)
     /\ IsPrefix(InvokedPairs(run.trace), Pairs(eventMap))
     /\ run.phase = "done" => InvokedPairs(run.trace) = Pairs(eventMap)
     /\ \A n \in 1..Len(run.trace) : run.trace[n].args = run.args
     /\ \A n, n2 \in 1..Len(run.trace) :
          (run.trace[n].key = run.trace[n2].key /\ run.trace[n].cb = run.trace[n2].cb)
          => n = n2

\* one callback registered under two keys was invoked once for each key
C13_Witness ==
  /\ run.kind = "publishAllSync"
  /\ run.phase = "done"
  /\ run.muts = 0
  /\ Len(eventMap) = 2
  /\ Len(run.trace) = 2
  /\ run.trace[1].cb = run.trace[2].cb
  /\ run.trace[1].key # run.trace[2].key

\* a step from old to new keeps the insertion order of a key's subscribers:
\* nothing changed, one callback that was not registered was put last, one
\* callback was removed, or the key lost all its subscribers
OrderKept(old, new) ==
  \/ new = old
  \/ \E c \in CB : c \notin Range(old) /\ new = Append(old, c)
  \/ \E n \in 1..Len(old) : new = SeqRemoveAt(old, n)
  \/ new = <<>>

\* invocations made (or started) so far follow the order the subscribers had
\* in their key's set when the call was made
InvokedInOrder ==
  /\ (run.kind \in SyncKinds /\ run.muts = 0)
     => IsPrefix(InvokedPairs(run.trace), run.snap)
  /\ (call.kind = "publish" \/ (call.kind = "publishAll" /\ call.muts = 0))
     => IsPrefix(InvokedPairs(call.invs), call.snap)

\* C14: the subscribers of one key are invoked (publishSync, publishAllSync)
\* or started (publish, publishAll) in the order of their insertion into the
\* key's set; subscribing a registered callback again does not move it, and a
\* callback subscribed after it was unsubscribed is placed last.  The order
\* in which asynchronous subscribers settle is not constrained.
C14_InsertionOrder ==
  /\ []InvokedInOrder
  /\ [][\A k \in Keys : OrderKept(Subscribers(eventMap, k), Subscribers(eventMap', k))]_vars

\* a publish started two subscribers in order, and the second one settled
\* before the first
C14_Witness ==
  /\ call.kind = "publish"
  /\ call.status = "awaiting"
  /\ Len(call.invs) = 2
  /\ InvokedPairs(call.invs) = PairsOf(eventMap, call.key)
  /\ call.invs[1].op = "pending"
  /\ call.invs[2].op = "rejected"

\* C15: when a subscriber invoked by publishSync or publishAllSync returned a
\* promise that later rejects, the rejection has a handler and is logged by
\* the error handler, as a synchronous throw is.
C15_SyncRejectionHandled ==
  floating.state = "rejected"
  => /\ floating.handled
     /\ Len(floating.logged) = 1

\* C16: every subscriber failure (synchronous throw, rejection or timeout)
\* during publish(key, ...) or publishSync(key, ...) is logged together with
\* key, for every event key.
C16_FailureLoggedWithKey ==
  /\ run.kind = "publishSync"
     => \A n \in 1..Len(run.errs) : run.errs[n].key = run.key
  /\ call.kind = "publish"
     => \A n \in 1..Len(call.invs) :
          /\ \A e \in Range(call.invs[n].logged) : e.key = call.key
          /\ call.invs[n].w \in {"rejected", "timeout"} => Len(call.invs[n].logged) = 1

\* what instance A subscribed is seen, published and cleared through B
SharedStep ==
  /\ \A k \in Keys, c \in CB :
       ( /\ Subscribe("A", k, c, FALSE)
         /\ ~AtCapacity(getSubscribersCount(eventMap, k), config["A"].maxSubscribers) )
       => /\ c \in Range(Subscribers(eventMap', k))
          /\ debug("B")'.getSubscribersCount[k] = Len(Subscribers(eventMap', k))
          /\ k \in Range(debug("B")'.getAllKeys)
  /\ \A k \in Keys, a \in Args :
       PublishSync("B", k, a) => run'.snap = PairsOf(eventMap, k)
  /\ Clear("B")
       => /\ debug("A")'.getAllKeys = <<>>
          /\ \A k \in Keys : debug("A")'.getSubscribersCount[k] = 0

\* C17: all dispatcher instances share one registry: at every moment the
\* debug functions of any two instances, whatever their configurations,
\* return the same counts and the same keys; a callback subscribed through A
\* is invoked by B's publishSync, and B.clear() removes it.
C17_SharedRegistry ==
  /\ [](\A i, j \in Inst : debug(i) = debug(j))
  /\ []((run.kind = "publishSync" /\ run.muts = 0 /\ run.phase = "done")
          => InvokedPairs(run.trace) = run.snap)
  /\ [][SharedStep]_vars

\* B's publishSync is invoking a callback subscribed through A, whose
\* configuration differs from B's, and that callback emptied the registry by
\* calling B.clear()
C17_Witness ==
  /\ config["A"] # config["B"]
  /\ run.kind = "publishSync"
  /\ run.phase = "cb"
  /\ run.muts = 1
  /\ run.snap # <<>>
  /\ eventMap = <<>>

\* the one outcome of a wrapped invocation, read from its fields
ExactlyOneOutcome(inv) ==
  /\ Len(inv.logged) <= 1
  /\ inv.w = "pending" => (inv.timer = "armed" /\ inv.logged = <<>>)
  /\ inv.w = "fulfilled" => (inv.op = "fulfilled" /\ inv.timer = "cleared" /\ inv.logged = <<>>)
  /\ inv.w = "rejected"
       => /\ inv.op = "rejected" /\ inv.timer = "cleared"
          /\ \A e \in Range(inv.logged) : e.err = "error"
          /\ Len(inv.logged) = 1
  /\ inv.w = "timeout"
       => /\ inv.timer = "fired"
          /\ \A e \in Range(inv.logged) : e.err = "timeout"
          /\ Len(inv.logged) = 1
  /\ inv.timer = "fired" => inv.w = "timeout"

\* the completion of an operation whose timer has fired changes neither the
\* outcome of the invocation, nor what was logged, nor the state of the call
LateCompletionDiscarded ==
  \A n \in 1..Len(call.invs) :
    ( /\ call.invs[n].timer = "fired"
      /\ call.invs[n].op = "pending"
      /\ Len(call'.invs) = Len(call.invs)
      /\ call'.invs[n].op # "pending" )
    => /\ call'.invs[n].w = "timeout"
       /\ call'.invs[n].logged = call.invs[n].logged
       /\ call'.status = call.status

\* C18: each invocation wrapped by withTimeout has exactly one outcome: if
\* the operation settles before the timer, that is the outcome and no timeout
\* is reported; if the timer fires first the outcome is a timeout and the
\* later completion is discarded; at most one error is logged per invocation
\* and the late completion does not affect the publish.
C18_ExactlyOneOutcome ==
  /\ [](\A n \in 1..Len(call.invs) :
          call.invs[n].w # "none" => ExactlyOneOutcome(call.invs[n]))
  /\ [][LateCompletionDiscarded]_vars

\* the timer fired first and the operation rejected afterwards: one timeout
\* is logged, and the call has resolved
C18_Witness ==
  /\ call.status = "resolved"
  /\ \E n \in 1..Len(call.invs) :
       /\ call.invs[n].timer = "fired"
       /\ call.invs[n].op = "rejected"
       /\ call.invs[n].w = "timeout"
       /\ Len(call.invs[n].logged) = 1

\* C19: when a publish or publishAll call completes, in any way, every
\* timer created by the call has fired or was cancelled, whatever the
\* subscribers do (return, throw, reject, never complete).
C19_NoTimerOutlivesPublish ==
  call.status \in {"resolved", "rejected"}
  => \A n \in 1..Len(call.invs) : call.invs[n].timer # "armed"

\* C20: a publishSync(key, ...) call invokes each subscriber callback at most
\* once (and so terminates), also when the subscribers it invokes subscribe
\* or unsubscribe on the same key during the call.
C20_PublishSyncAtMostOnce ==
  run.kind = "publishSync"
  => \A n, n2 \in 1..Len(run.trace) :
       run.trace[n].cb = run.trace[n2].cb => n = n2

====
